---- MODULE Spec2Model ----
(***************************************************************************)
(* Smart Habit Tracker (app2.py): the composite score, the weekly          *)
(* analysis, the suggestion and alert rules, and the session entry store   *)
(* driven by Streamlit script reruns.                                       *)
(*                                                                         *)
(* Numbers.  The program computes in binary floating point.  The model     *)
(* computes the same expressions exactly, in fixed point: a composite      *)
(* score is an integer count of 1/ScoreOne, an average is a pair           *)
(* <<sum, count>>.  Field values are whole numbers (sleep in whole hours). *)
(***************************************************************************)
EXTENDS Integers, Sequences, FiniteSets, TLC

VARIABLES
    row,            \* composite_score's argument (one DataFrame row)
    score,          \* composite_score's return value for row: <<>> before the call
    prev,           \* the row and score of the evaluation before a widget moved
    df_week,        \* analyze_week's argument: a sequence of rows
    analysis,       \* analyze_week's return value
    avgs,           \* the averages handed to the suggestion and alert rules
    tips,           \* suggestions_from_averages' return value
    alerts,         \* the low-performance alert list
    data,           \* st.session_state.data: the session entry store
    custom_habits,  \* st.session_state.custom_habits: name -> cap
    uploaded,       \* the file held by the file_uploader widget
    clock,          \* the calendar day, counted from the day the session began
    today,          \* datetime.date.today() as the latest script run read it
    clicked         \* the widget whose change caused the latest script run

\* Python's None, and a returned value v, as a sequence of at most one element.
None == <<>>
Some(v) == <<v>>

Min(a, b) == IF a <= b THEN a ELSE b

Numeric == {"sleep", "healthy_food", "junk_food", "exercise", "water", "reading"}

-----------------------------------------------------------------------------
(* composite_score *)

CapSleep == 9
CapHealthy == 5
CapJunk == 5
CapExercise == 60
CapWater == 8
CapReading == 60

\* The weights of the return statement, in hundredths.
WSleep == 18
WHealthy == 18
WJunk == 12
WExercise == 20
WWater == 16
WReading == 16

WeightScale == 100

RECURSIVE GCD(_, _)
GCD(a, b) == IF b = 0 THEN a ELSE GCD(b, a % b)

LCM(a, b) == (a * b) \div GCD(a, b)

\* The common denominator of the six quotients x / cap.
NormDen ==
    LCM(LCM(LCM(CapSleep, CapHealthy), LCM(CapJunk, CapExercise)),
        LCM(CapWater, CapReading))

\* The value 1.0 of a composite score.
ScoreOne == WeightScale * NormDen

\* row.get(key, 0)
Get(r, key) == IF key \in DOMAIN r THEN r[key] ELSE 0

\* min(x / cap, 1.0), in units of 1/NormDen
Norm(x, cap) == Min(x * (NormDen \div cap), NormDen)

\* The same without the clamp at 1.0.
NormUnclamped(x, cap) == x * (NormDen \div cap)

composite_score_unclamped(r) ==
    LET s  == NormUnclamped(Get(r, "sleep"), CapSleep)
        hf == NormUnclamped(Get(r, "healthy_food"), CapHealthy)
        jf == NormDen - NormUnclamped(Get(r, "junk_food"), CapJunk)
        ex == NormUnclamped(Get(r, "exercise"), CapExercise)
        w  == NormUnclamped(Get(r, "water"), CapWater)
        rd == NormUnclamped(Get(r, "reading"), CapReading)
    IN  WSleep * s + WHealthy * hf + WJunk * jf + WExercise * ex
          + WWater * w + WReading * rd

\* Junk food scored like the other five: more is better.
composite_score_junk_up(r) ==
    LET s  == Norm(Get(r, "sleep"), CapSleep)
        hf == Norm(Get(r, "healthy_food"), CapHealthy)
        jf == Norm(Get(r, "junk_food"), CapJunk)
        ex == Norm(Get(r, "exercise"), CapExercise)
        w  == Norm(Get(r, "water"), CapWater)
        rd == Norm(Get(r, "reading"), CapReading)
    IN  WSleep * s + WHealthy * hf + WJunk * jf + WExercise * ex
          + WWater * w + WReading * rd

composite_score(r) ==
    LET s  == Norm(Get(r, "sleep"), CapSleep)
        hf == Norm(Get(r, "healthy_food"), CapHealthy)
        jf == NormDen - Norm(Get(r, "junk_food"), CapJunk)
        ex == Norm(Get(r, "exercise"), CapExercise)
        w  == Norm(Get(r, "water"), CapWater)
        rd == Norm(Get(r, "reading"), CapReading)
    IN  WSleep * s + WHealthy * hf + WJunk * jf + WExercise * ex
          + WWater * w + WReading * rd

Cap(f) ==
    CASE f = "sleep" -> CapSleep
      [] f = "healthy_food" -> CapHealthy
      [] f = "junk_food" -> CapJunk
      [] f = "exercise" -> CapExercise
      [] f = "water" -> CapWater
      [] f = "reading" -> CapReading

-----------------------------------------------------------------------------
(* DataFrames: a sequence of rows; a row carries its index label (idx), its *)
(* date (a day number), the six numeric columns and the custom columns     *)
(* (None where the cell is NaN or the column is absent).                   *)

CustomNames == {"Meditation"}

Range(s) == {s[i] : i \in DOMAIN s}

Perms(n) == {p \in [1..n -> 1..n] : \A i, j \in 1..n : p[i] = p[j] => i = j}

\* Sorted by the score column instead of the column asked for.
sort_values_by_score(df, by) ==
    {[i \in 1..Len(df) |-> df[p[i]]] : p \in
        {q \in Perms(Len(df)) :
            \A i \in 1..(Len(df) - 1) : df[q[i]].score <= df[q[i + 1]].score}}

\* df.sort_values(by): pandas' default sort is not stable, so rows with equal
\* keys may come out in any order.
sort_values(df, by) ==
    {[i \in 1..Len(df) |-> df[p[i]]] : p \in
        {q \in Perms(Len(df)) :
            \A i \in 1..(Len(df) - 1) : df[q[i]][by] <= df[q[i + 1]][by]}}

\* df["score"] = df.apply(composite_score, axis=1)
WithScore(df) ==
    [i \in 1..Len(df) |->
        [idx |-> df[i].idx, date |-> df[i].date, score |-> composite_score(df[i])]]

\* The label of the last row holding the maximum.
idxmax_last(sc) ==
    LET i == CHOOSE k \in 1..Len(sc) :
                 /\ \A j \in 1..Len(sc) : sc[j].score <= sc[k].score
                 /\ \A j \in (k + 1)..Len(sc) : sc[j].score < sc[k].score
    IN  sc[i].idx

\* df["score"].idxmax(): the label of the first row, in the frame's order, that
\* holds the maximum.
idxmax(sc) ==
    LET i == CHOOSE k \in 1..Len(sc) :
                 /\ \A j \in 1..Len(sc) : sc[j].score <= sc[k].score
                 /\ \A j \in 1..(k - 1) : sc[j].score < sc[k].score
    IN  sc[i].idx

\* df.loc[label]: the row with that label, for a frame whose labels are unique.
Loc(sc, label) == sc[CHOOSE i \in 1..Len(sc) : sc[i].idx = label]

RECURSIVE SumCol(_, _, _)
SumCol(df, f, n) == IF n = 0 THEN 0 ELSE SumCol(df, f, n - 1) + df[n][f]

\* The rows left by drop_duplicates("date", keep="last").
DropDuplicateDates(df) ==
    SelectSeq(df, LAMBDA r : r.idx = (CHOOSE m \in {x.idx : x \in {y \in Range(df) : y.date = r.date}} :
                                  \A x \in {y \in Range(df) : y.date = r.date} : x.idx <= m))

\* The mean over one row per date.
mean_one_per_date(df) ==
    LET d == DropDuplicateDates(df)
    IN  [f \in Numeric |-> <<SumCol(d, f, Len(d)), Len(d)>>]

\* df[[the six columns]].mean().to_dict(): each mean as <<sum, count>>.
mean(df) == [f \in Numeric |-> <<SumCol(df, f, Len(df)), Len(df)>>]

\* The results analyze_week can return for df_week (one per order the sort
\* can leave equal dates in).
analyze_week(dfw) ==
    IF Len(dfw) = 0
    THEN {None}
    ELSE LET sc == WithScore(dfw)
             best_idx == idxmax(sc)
             best_day == Loc(sc, best_idx).date
             averages == mean(dfw)
         IN  {Some([best_day |-> best_day, averages |-> averages, scores |-> s]) :
                 s \in sort_values(sc, "date")}

-----------------------------------------------------------------------------
(* Suggestions and alerts.  An average is <<sum, count>> with count > 0. *)

Lt(a, k) == a[1] < k * a[2]
Gt(a, k) == a[1] > k * a[2]

TipSleep == "Try to increase sleep"
TipWater == "Drink more water"
TipExercise == "Add more movement"
TipHealthy == "Increase healthy food portions"
TipJunk == "Reduce junk food frequency"
TipReading == "Try a short daily reading habit"
TipGreat == "Great week!"

When(cond, msg) == IF cond THEN <<msg>> ELSE <<>>

\* Without the fallback message.
suggestions_no_fallback(avg) ==
    When(Lt(avg.sleep, 6), TipSleep)
      \o When(Lt(avg.water, 6), TipWater)
      \o When(Lt(avg.exercise, 20), TipExercise)
      \o When(Lt(avg.healthy_food, 3), TipHealthy)
      \o When(Gt(avg.junk_food, 1), TipJunk)
      \o When(Lt(avg.reading, 15), TipReading)

\* With the junk food threshold of the quick insights (2) in place of 1.
suggestions_junk_over_2(avg) ==
    LET t == When(Lt(avg.sleep, 6), TipSleep)
               \o When(Lt(avg.water, 6), TipWater)
               \o When(Lt(avg.exercise, 20), TipExercise)
               \o When(Lt(avg.healthy_food, 3), TipHealthy)
               \o When(Gt(avg.junk_food, 2), TipJunk)
               \o When(Lt(avg.reading, 15), TipReading)
    IN  IF t = <<>> THEN <<TipGreat>> ELSE t

suggestions_from_averages(avg) ==
    LET t == When(Lt(avg.sleep, 6), TipSleep)
               \o When(Lt(avg.water, 6), TipWater)
               \o When(Lt(avg.exercise, 20), TipExercise)
               \o When(Lt(avg.healthy_food, 3), TipHealthy)
               \o When(Gt(avg.junk_food, 1), TipJunk)
               \o When(Lt(avg.reading, 15), TipReading)
    IN  IF t = <<>> THEN <<TipGreat>> ELSE t

AlertWater == "Low average water intake"
AlertSleep == "Low average sleep"
AlertExercise == "Low average exercise minutes"

\* With the suggestions' thresholds (6, 6, 20) in place of the alerts' own.
low_performance_alerts_tip_thresholds(avg) ==
    When(Lt(avg.water, 6), AlertWater)
      \o When(Lt(avg.sleep, 6), AlertSleep)
      \o When(Lt(avg.exercise, 20), AlertExercise)

\* The alerts list of the weekly analysis block.
low_performance_alerts(avg) ==
    When(Lt(avg.water, 5), AlertWater)
      \o When(Lt(avg.sleep, 6), AlertSleep)
      \o When(Lt(avg.exercise, 15), AlertExercise)

-----------------------------------------------------------------------------
(* Scoring one row, and scoring it again after one widget is moved. *)

\* Values a row can hold: the widgets' ranges, and a negative value that only
\* an imported CSV can bring.
ScoreValues(f) ==
    CASE f = "sleep" -> {-1, 0, 4, 9, 12}
      [] f = "healthy_food" -> {0, 3, 5, 10}
      [] f = "junk_food" -> {-1, 0, 3, 5, 20}
      [] f = "exercise" -> {0, 25, 60, 300}
      [] f = "water" -> {0, 6, 8, 20}
      [] f = "reading" -> {0, 20, 60, 600}

scoreVars == <<row, score, prev>>
weekVars == <<df_week, analysis, avgs, tips, alerts>>
storeVars == <<data, custom_habits, uploaded, clock, today, clicked>>
vars ==
    <<row, score, prev, df_week, analysis, avgs, tips, alerts,
      data, custom_habits, uploaded, clock, today, clicked>>

\* make_empty_df(): no rows.
make_empty_df == <<>>

\* The session state a first script run leaves, with no widget touched.
StoreIdle ==
    /\ data = make_empty_df
    /\ custom_habits = [c \in CustomNames |-> None]
    /\ uploaded = None
    /\ clock = 0
    /\ today = 0
    /\ clicked = "none"

ScoreIdle == row = [f \in Numeric |-> 0] /\ score = None /\ prev = None
WeekIdle ==
    /\ df_week = <<>>
    /\ analysis = None
    /\ avgs = None
    /\ tips = None
    /\ alerts = None

InitScore ==
    /\ row \in [sleep : ScoreValues("sleep"),
                healthy_food : ScoreValues("healthy_food"),
                junk_food : ScoreValues("junk_food"),
                exercise : ScoreValues("exercise"),
                water : ScoreValues("water"),
                reading : ScoreValues("reading")]
    /\ score = None
    /\ prev = None
    /\ WeekIdle
    /\ StoreIdle

\* df.apply(composite_score, axis=1) on the row.
ScoreRow ==
    /\ score = None
    /\ score' = Some(composite_score(row))
    /\ UNCHANGED <<row, prev>>
    /\ UNCHANGED weekVars
    /\ UNCHANGED storeVars

\* One widget is moved up and the row is scored again.
RaiseField(f, v) ==
    /\ score # None
    /\ prev = None
    /\ v > row[f]
    /\ prev' = Some([row |-> row, score |-> score[1], field |-> f])
    /\ row' = [row EXCEPT ![f] = v]
    /\ score' = Some(composite_score(row'))
    /\ UNCHANGED weekVars
    /\ UNCHANGED storeVars

NextScore ==
    \/ ScoreRow
    \/ \E f \in Numeric : \E v \in ScoreValues(f) : RaiseField(f, v)

SpecScore == InitScore /\ [][NextScore]_vars

-----------------------------------------------------------------------------
(* The suggestion and alert rules on averages drawn around the thresholds. *)

AvgValues(f) ==
    CASE f = "sleep" -> {<<-1, 1>>, <<5, 1>>, <<17, 3>>, <<6, 1>>, <<8, 1>>}
      [] f = "water" -> {<<4, 1>>, <<5, 1>>, <<11, 2>>, <<6, 1>>, <<8, 1>>}
      [] f = "exercise" -> {<<10, 1>>, <<15, 1>>, <<35, 2>>, <<20, 1>>, <<30, 1>>}
      [] f = "healthy_food" -> {<<8, 3>>, <<3, 1>>, <<4, 1>>}
      [] f = "junk_food" -> {<<0, 1>>, <<1, 1>>, <<4, 3>>}
      [] f = "reading" -> {<<14, 1>>, <<15, 1>>, <<20, 1>>}

InitAdvice ==
    /\ ScoreIdle
    /\ StoreIdle
    /\ df_week = <<>>
    /\ analysis = None
    /\ avgs \in {Some(a) : a \in [sleep : AvgValues("sleep"),
                                  healthy_food : AvgValues("healthy_food"),
                                  junk_food : AvgValues("junk_food"),
                                  exercise : AvgValues("exercise"),
                                  water : AvgValues("water"),
                                  reading : AvgValues("reading")]}
    /\ tips = None
    /\ alerts = None

\* for tip in suggestions_from_averages(avgs)
Suggest ==
    /\ avgs # None
    /\ tips = None
    /\ tips' = Some(suggestions_from_averages(avgs[1]))
    /\ UNCHANGED <<df_week, analysis, avgs, alerts>>
    /\ UNCHANGED scoreVars
    /\ UNCHANGED storeVars

\* The low-performance alerts of the same averages, after the suggestions.
Alert ==
    /\ avgs # None
    /\ tips # None
    /\ alerts = None
    /\ alerts' = Some(low_performance_alerts(avgs[1]))
    /\ UNCHANGED <<df_week, analysis, avgs, tips>>
    /\ UNCHANGED scoreVars
    /\ UNCHANGED storeVars

NextAdvice == Suggest \/ Alert

SpecAdvice == InitAdvice /\ [][NextAdvice]_vars

-----------------------------------------------------------------------------
(* analyze_week on bounded frames, followed by the rules on its averages. *)

MaxWeekLen == 3

NoCustom == [c \in CustomNames |-> None]

\* The three records of the specification's end-to-end example; the second
\* also fills a custom habit column.
ValuesD1 == [sleep |-> 4, water |-> 3, exercise |-> 10, healthy_food |-> 1,
             junk_food |-> 3, reading |-> 5, custom |-> NoCustom]
ValuesD2 == [sleep |-> 8, water |-> 8, exercise |-> 45, healthy_food |-> 4,
             junk_food |-> 0, reading |-> 30,
             custom |-> [c \in CustomNames |-> Some(10)]]
ValuesD3 == [sleep |-> 7, water |-> 7, exercise |-> 25, healthy_food |-> 3,
             junk_food |-> 1, reading |-> 10, custom |-> NoCustom]
WeekValues == {ValuesD1, ValuesD2, ValuesD3}
WeekDates == {1, 2, 3}

MakeRow(i, d, v) ==
    [idx |-> i, date |-> d, sleep |-> v.sleep, healthy_food |-> v.healthy_food,
     junk_food |-> v.junk_food, exercise |-> v.exercise, water |-> v.water,
     reading |-> v.reading, custom |-> v.custom]

\* Frames of n rows, labelled in ascending order (a frame as concatenated with
\* ignore_index) or in descending order (the same frame reversed).
WeekFrames(n) ==
    {[i \in 1..n |-> MakeRow(IF up THEN i - 1 ELSE n - i, d[i], v[i])] :
        d \in [1..n -> WeekDates], v \in [1..n -> WeekValues], up \in BOOLEAN}

InitWeek ==
    /\ ScoreIdle
    /\ StoreIdle
    /\ df_week \in UNION {WeekFrames(n) : n \in 0..MaxWeekLen}
    /\ analysis = None
    /\ avgs = None
    /\ tips = None
    /\ alerts = None

\* analysis = analyze_week(last_7); avgs = analysis["averages"]
AnalyzeWeek ==
    /\ analysis = None
    /\ \E res \in analyze_week(df_week) :
          /\ analysis' = Some(res)
          /\ avgs' = IF res = None THEN None ELSE Some(res[1].averages)
    /\ UNCHANGED <<df_week, tips, alerts>>
    /\ UNCHANGED scoreVars
    /\ UNCHANGED storeVars

NextWeek == AnalyzeWeek \/ Suggest \/ Alert

SpecWeek == InitWeek /\ [][NextWeek]_vars

-----------------------------------------------------------------------------
(* The session entry store.  Streamlit runs the whole script again on every *)
(* widget change: one action is one script run, top to bottom, with the     *)
(* button that was clicked (if any) reading True in that run only and the   *)
(* file_uploader returning its file in every run until the file is removed. *)

MaxRows == 3
MaxDays == 1

\* The dates the date_input is set to: the day the session began and the day
\* after it (the widget puts no upper limit on the date).
EntryDates == {0, 1}

\* The values the six entry widgets are set to.
EntryValues == {ValuesD1}

\* The value typed for a custom habit's entry (the widget starts at 0.0).
CustomInputValues == {10}

\* The text of the custom habit's name input; "" is a blank name.
NameInputs == CustomNames \cup {""}
CapInput == 30

\* pd.concat([a, b], ignore_index=True): b's rows after a's, relabelled 0..n-1.
\* A custom column one frame lacks is NaN (None) in that frame's rows.
Concat(a, b) ==
    LET ab == a \o b
    IN  [i \in 1..Len(ab) |-> [ab[i] EXCEPT !.idx = i - 1]]

\* pd.to_datetime(col).dt.date: the day of a timestamp <<day, hour>>.
DtDate(ts) == ts[1]

\* A CSV file: whether it has a date column, and its rows, each with a
\* timestamp in the date cell.
CsvRow(day, hour, v) ==
    [date |-> <<day, hour>>, sleep |-> v.sleep, healthy_food |-> v.healthy_food,
     junk_food |-> v.junk_food, exercise |-> v.exercise, water |-> v.water,
     reading |-> v.reading, custom |-> v.custom]

CsvFiles ==
    { [has_date |-> FALSE, rows |-> <<CsvRow(0, 0, ValuesD3)>>],
      [has_date |-> TRUE, rows |-> <<CsvRow(0 - 6, 9, ValuesD3), CsvRow(1, 0, ValuesD2)>>] }

\* The import block: read_csv(parse_dates=["date"]) raises for a file without
\* a date column and the except branch leaves the store as it is; otherwise
\* the rows are appended with their dates normalised.
ImportCsv(d, file) ==
    IF ~file.has_date
    THEN d
    ELSE Concat(d, [i \in 1..Len(file.rows) |->
                      MakeRow(0, DtDate(file.rows[i].date), file.rows[i])])

\* The Save Entry block: the new row holds the widgets' values and one value
\* per defined custom habit.
SaveEntry(d, habits, entry_date, v, cv) ==
    LET new == [idx |-> 0, date |-> entry_date, sleep |-> v.sleep,
                healthy_food |-> v.healthy_food, junk_food |-> v.junk_food,
                exercise |-> v.exercise, water |-> v.water, reading |-> v.reading,
                custom |-> [c \in CustomNames |->
                              IF habits[c] # None THEN Some(cv) ELSE None]]
    IN  Concat(d, <<new>>)

\* last_7 = df[df["date"] >= today - timedelta(days=6)]
Last7(df, t) == SelectSeq(df, LAMBDA r : r.date >= t - 6)

\* The display block: nothing for an empty store; otherwise the store sorted
\* by date, its last-7-days rows analyzed, and the rules applied.
Display(d, t) ==
    IF Len(d) = 0
    THEN /\ df_week' = <<>>
         /\ analysis' = None
         /\ avgs' = None
         /\ tips' = None
         /\ alerts' = None
    ELSE \E df \in sort_values(d, "date") :
            LET last_7 == Last7(df, t)
            IN  /\ df_week' = last_7
                /\ \E res \in analyze_week(last_7) :
                      /\ analysis' = Some(res)
                      /\ avgs' = IF res = None THEN None ELSE Some(res[1].averages)
                      /\ tips' = IF res = None THEN None
                                 ELSE Some(suggestions_from_averages(res[1].averages))
                      /\ alerts' = IF res = None THEN None
                                   ELSE Some(low_performance_alerts(res[1].averages))

\* One run of the script.  btn is the button clicked ("none" when the run was
\* caused by another widget), up the file_uploader's value in this run.
RunScript(btn, up, name, entry_date, v, cv) ==
    LET habits == IF btn = "add_habit" /\ name # ""
                  THEN [custom_habits EXCEPT ![name] = Some(CapInput)]
                  ELSE custom_habits
        saved == IF btn = "save"
                 THEN SaveEntry(data, habits, entry_date, v, cv)
                 ELSE data
        imported == IF up # None THEN ImportCsv(saved, up[1]) ELSE saved
        cleared == IF btn = "clear" THEN make_empty_df ELSE imported
    IN  /\ Len(cleared) <= MaxRows
        /\ today' = clock
        /\ custom_habits' = habits
        /\ data' = cleared
        /\ uploaded' = up
        /\ Display(cleared, clock)
        /\ UNCHANGED clock
        /\ UNCHANGED scoreVars

AnyDate == CHOOSE d \in EntryDates : TRUE
AnyValues == CHOOSE v \in EntryValues : TRUE
AnyCustom == CHOOSE c \in CustomInputValues : TRUE

ClickAddHabit ==
    \E name \in NameInputs :
        /\ clicked' = "add_habit"
        /\ RunScript("add_habit", uploaded, name, AnyDate, AnyValues, AnyCustom)

ClickSave ==
    \E d \in EntryDates, v \in EntryValues, cv \in CustomInputValues :
        /\ clicked' = "save"
        /\ ((\A c \in CustomNames : custom_habits[c] = None) => cv = AnyCustom)
        /\ RunScript("save", uploaded, "", d, v, cv)

ClickClear ==
    /\ clicked' = "clear"
    /\ RunScript("clear", uploaded, "", AnyDate, AnyValues, AnyCustom)

\* A file is put into the uploader.
Upload ==
    \E file \in CsvFiles :
        /\ uploaded = None
        /\ clicked' = "upload"
        /\ RunScript("none", Some(file), "", AnyDate, AnyValues, AnyCustom)

\* The file is taken out of the uploader.
RemoveUpload ==
    /\ uploaded # None
    /\ clicked' = "remove_upload"
    /\ RunScript("none", None, "", AnyDate, AnyValues, AnyCustom)

\* Any other widget changes (a slider, the date, a checkbox).
OtherWidget ==
    /\ clicked' = "other"
    /\ RunScript("none", uploaded, "", AnyDate, AnyValues, AnyCustom)

\* Midnight passes; no script runs.
DayPasses ==
    /\ clock < MaxDays
    /\ clock' = clock + 1
    /\ UNCHANGED <<data, custom_habits, uploaded, today, clicked>>
    /\ UNCHANGED weekVars
    /\ UNCHANGED scoreVars

Init ==
    /\ ScoreIdle
    /\ WeekIdle
    /\ StoreIdle

Next ==
    \/ ClickAddHabit
    \/ ClickSave
    \/ ClickClear
    \/ Upload
    \/ RemoveUpload
    \/ OtherWidget
    \/ DayPasses

Spec == Init /\ [][Next]_vars

-----------------------------------------------------------------------------
(* Properties of composite_score (SpecScore). *)

NonNegative(r) == \A f \in Numeric : r[f] >= 0

AtBest(r) ==
    /\ r.junk_food = 0
    /\ \A f \in Numeric \ {"junk_food"} : r[f] >= Cap(f)

\* C2: for a row whose six fields are all non-negative the composite score
\* lies in [0, 1]; the six weights sum to 1; and the score is 1 exactly when
\* junk_food = 0 and every other field is at or above its cap.
C2_ScoreBounds ==
    /\ WSleep + WHealthy + WJunk + WExercise + WWater + WReading = WeightScale
    /\ (score # None /\ NonNegative(row)) =>
          /\ 0 <= score[1]
          /\ score[1] <= ScoreOne
          /\ (score[1] = ScoreOne) <=> AtBest(row)

\* A scored row with fields above their caps and the score 1.
C2_Witness ==
    /\ score # None
    /\ score[1] = ScoreOne
    /\ row.exercise > CapExercise
    /\ row.sleep > CapSleep

\* C8: with the other five fields fixed, raising sleep, healthy_food,
\* exercise, water or reading strictly increases the score when the field
\* was below its cap and leaves it unchanged when it was at or above the cap;
\* raising junk_food strictly decreases the score when it was below its cap
\* and leaves it unchanged when it was at or above the cap.
C8_Monotone ==
    prev # None =>
        LET f    == prev[1].field
            old  == prev[1].row[f]
            was  == prev[1].score
            now  == score[1]
        IN  /\ row[f] > old
            /\ \A g \in Numeric \ {f} : row[g] = prev[1].row[g]
            /\ IF old >= Cap(f)
               THEN now = was
               ELSE IF f = "junk_food" THEN now < was ELSE now > was

\* junk_food was raised from below its cap and the score went down.
C8_Witness ==
    /\ prev # None
    /\ prev[1].field = "junk_food"
    /\ prev[1].row.junk_food = 0
    /\ row.junk_food = 3
    /\ score[1] < prev[1].score

-----------------------------------------------------------------------------
(* Properties of the suggestion and alert rules (SpecAdvice). *)

RuleOrder ==
    <<TipSleep, TipWater, TipExercise, TipHealthy, TipJunk, TipReading, TipGreat>>

Pos(order, m) == CHOOSE i \in DOMAIN order : order[i] = m

Ascending(order, t) ==
    /\ Range(t) \subseteq Range(order)
    /\ \A i, j \in DOMAIN t : i < j => Pos(order, t[i]) < Pos(order, t[j])

\* C4: the suggestion list is never empty; it holds the messages of exactly
\* the rules whose predicate holds, in the rule table's order, and the
\* positive message exactly when no predicate holds.
C4_Suggestions ==
    (tips # None /\ avgs # None) =>
        LET t == tips[1]
            a == avgs[1]
            sleepLow    == a.sleep[1] < 6 * a.sleep[2]
            waterLow    == a.water[1] < 6 * a.water[2]
            exerciseLow == a.exercise[1] < 20 * a.exercise[2]
            healthyLow  == a.healthy_food[1] < 3 * a.healthy_food[2]
            junkHigh    == a.junk_food[1] > 1 * a.junk_food[2]
            readingLow  == a.reading[1] < 15 * a.reading[2]
        IN  /\ Len(t) >= 1
            /\ Ascending(RuleOrder, t)
            /\ (TipSleep \in Range(t)) <=> sleepLow
            /\ (TipWater \in Range(t)) <=> waterLow
            /\ (TipExercise \in Range(t)) <=> exerciseLow
            /\ (TipHealthy \in Range(t)) <=> healthyLow
            /\ (TipJunk \in Range(t)) <=> junkHigh
            /\ (TipReading \in Range(t)) <=> readingLow
            /\ (TipGreat \in Range(t)) <=>
                  ~(sleepLow \/ waterLow \/ exerciseLow \/ healthyLow
                      \/ junkHigh \/ readingLow)

GoodAverages ==
    [sleep |-> <<8, 1>>, water |-> <<8, 1>>, exercise |-> <<30, 1>>,
     healthy_food |-> <<4, 1>>, junk_food |-> <<0, 1>>, reading |-> <<20, 1>>]

LowAverages ==
    [sleep |-> <<5, 1>>, water |-> <<4, 1>>, exercise |-> <<10, 1>>,
     healthy_food |-> <<4, 1>>, junk_food |-> <<0, 1>>, reading |-> <<20, 1>>]

\* The good averages give the positive message alone.
C4_Witness ==
    /\ avgs = Some(GoodAverages)
    /\ tips = Some(<<TipGreat>>)

AlertOrder == <<AlertWater, AlertSleep, AlertExercise>>

\* C5: the alert list holds exactly the alerts whose predicate holds
\* (water < 5, sleep < 6, exercise < 15), in the order water, sleep,
\* exercise, and is empty when none holds; the low averages of the
\* specification give all three and the good averages give none.
C5_Alerts ==
    (alerts # None /\ avgs # None) =>
        LET t == alerts[1]
            a == avgs[1]
            waterLow    == a.water[1] < 5 * a.water[2]
            sleepLow    == a.sleep[1] < 6 * a.sleep[2]
            exerciseLow == a.exercise[1] < 15 * a.exercise[2]
        IN  /\ Ascending(AlertOrder, t)
            /\ (AlertWater \in Range(t)) <=> waterLow
            /\ (AlertSleep \in Range(t)) <=> sleepLow
            /\ (AlertExercise \in Range(t)) <=> exerciseLow
            /\ ~(waterLow \/ sleepLow \/ exerciseLow) => t = <<>>
            /\ a = LowAverages => t = <<AlertWater, AlertSleep, AlertExercise>>
            /\ a = GoodAverages => t = <<>>

\* The low averages have produced the three alerts.
C5_Witness ==
    /\ avgs = Some(LowAverages)
    /\ alerts = Some(<<AlertWater, AlertSleep, AlertExercise>>)

-----------------------------------------------------------------------------
(* Properties of analyze_week (SpecWeek). *)

Analyzed == analysis # None /\ analysis[1] # None
Result == analysis[1][1]

Fixed(v) == [f \in Numeric |-> v[f]]

\* df_week holds the example's three records, one per date, in any order.
IsExampleWeek ==
    /\ Len(df_week) = 3
    /\ {<<df_week[i].date, Fixed(df_week[i])>> : i \in 1..3}
          = {<<1, Fixed(ValuesD1)>>, <<2, Fixed(ValuesD2)>>, <<3, Fixed(ValuesD3)>>}

\* C1 as stated: for the example's records D1, D2, D3 the best day is D2 and
\* the suggestions hold neither the sleep nor the junk food message.
C1_AsStated ==
    (IsExampleWeek /\ Analyzed /\ tips # None) =>
        /\ Result.best_day = 2
        /\ TipSleep \notin Range(tips[1])
        /\ TipJunk \notin Range(tips[1])

\* C1 amended: for the example's records D1, D2, D3 the best day is D2, the
\* suggestions do not hold the sleep message (mean sleep 19/3 >= 6) and do
\* hold the junk food message (mean junk_food 4/3 > 1).
C1_Amended ==
    (IsExampleWeek /\ Analyzed /\ tips # None) =>
        /\ Result.best_day = 2
        /\ TipSleep \notin Range(tips[1])
        /\ TipJunk \in Range(tips[1])

\* The example week analyzed and its suggestions computed.
C1_Witness ==
    /\ IsExampleWeek
    /\ Analyzed
    /\ tips # None
    /\ Result.averages.junk_food = <<4, 3>>

IsMax(i) ==
    \A j \in 1..Len(df_week) :
        composite_score(df_week[j]) <= composite_score(df_week[i])

\* C3: best_day is the date of a record of maximal composite score, and among
\* several maximal records it is the date of the first in the input's order.
C3_FirstMax ==
    Analyzed =>
        \E i \in 1..Len(df_week) :
            /\ IsMax(i)
            /\ \A j \in 1..(i - 1) : ~IsMax(j)
            /\ Result.best_day = df_week[i].date

\* Two maximal records; the first in input order carries the later date, and
\* its date is the best day.
C3_Witness ==
    /\ Analyzed
    /\ \E i, j \in 1..Len(df_week) :
          /\ i < j
          /\ IsMax(i)
          /\ IsMax(j)
          /\ df_week[i].date > df_week[j].date
          /\ Result.best_day = df_week[i].date

RECURSIVE TotalFrom(_, _)
TotalFrom(f, i) ==
    IF i > Len(df_week) THEN 0 ELSE df_week[i][f] + TotalFrom(f, i + 1)

\* C6: each of the six averages is the sum of the field over all N input
\* records divided by N; records sharing a date count separately, and the
\* custom columns are not among the averages.
C6_Averages ==
    Analyzed =>
        LET a == Result.averages
            n == Len(df_week)
        IN  /\ DOMAIN a = Numeric
            /\ \A f \in Numeric :
                  /\ a[f][2] > 0
                  /\ a[f][1] * n = TotalFrom(f, 1) * a[f][2]

\* Averages over a frame with two different records of one date and a custom
\* column value.
C6_Witness ==
    /\ Analyzed
    /\ \E i, j \in 1..Len(df_week) :
          /\ df_week[i].date = df_week[j].date
          /\ df_week[i].sleep # df_week[j].sleep
    /\ \E i \in 1..Len(df_week) : \E c \in CustomNames : df_week[i].custom[c] # None

\* C7: the score series has one entry per input record, carrying that
\* record's date and composite score, and is ordered by non-decreasing date.
C7_ScoreSeries ==
    Analyzed =>
        LET sc == Result.scores
        IN  /\ Len(sc) = Len(df_week)
            /\ \A i \in 1..Len(df_week) :
                  \E k \in 1..Len(sc) :
                      /\ sc[k].idx = df_week[i].idx
                      /\ sc[k].date = df_week[i].date
                      /\ sc[k].score = composite_score(df_week[i])
            /\ \A k \in 1..(Len(sc) - 1) : sc[k].date <= sc[k + 1].date

\* A series of an input that was not in date order, with two entries of one
\* date, and not in score order.
C7_Witness ==
    /\ Analyzed
    /\ \E i \in 1..(Len(df_week) - 1) : df_week[i].date > df_week[i + 1].date
    /\ \E k \in 1..(Len(Result.scores) - 1) :
          /\ Result.scores[k].date = Result.scores[k + 1].date
          /\ Result.scores[k].score # Result.scores[k + 1].score
    /\ \E k \in 1..(Len(Result.scores) - 1) :
          Result.scores[k].score > Result.scores[k + 1].score

-----------------------------------------------------------------------------
(* Properties of the entry store and of the weekly window (Spec). *)

\* Every row of a is still at its place in b, with its label and its values.
IsPrefix(a, b) ==
    /\ Len(a) <= Len(b)
    /\ \A i \in 1..Len(a) : b[i] = a[i]

\* C9 as stated: a script run caused by Save Entry appends exactly one row, a
\* run caused by putting a readable CSV of k rows into the uploader appends
\* exactly k rows, neither changes a row already stored, and a run caused by
\* Clear leaves zero rows.
C9_AsStated ==
    [][clock' = clock =>
          /\ clicked' = "clear" => data' = make_empty_df
          /\ clicked' \in {"save", "upload"} => IsPrefix(data, data')
          /\ clicked' = "save" => Len(data') = Len(data) + 1
          /\ (clicked' = "upload" /\ uploaded'[1].has_date) =>
                Len(data') = Len(data) + Len(uploaded'[1].rows)]_vars

\* C10 as stated: the rows handed to analyze_week by the weekly analysis are
\* exactly the stored rows with today-6 <= date <= today.
C10_AsStated ==
    analysis # None =>
        \A i \in 1..Len(data) :
            (\E k \in 1..Len(df_week) : df_week[k].idx = data[i].idx)
                <=> (today - 6 <= data[i].date /\ data[i].date <= today)

====
